---- MODULE Spec2Model ----
(***************************************************************************)
(* AI_URL_Detector: the scan pipeline of app.py (/predict and /api/scan)   *)
(* over src/feature_extractor.py (normalizer, domain resolver, OSINT       *)
(* probes, feature vector assembler) and the hybrid verdict rules.         *)
(*                                                                         *)
(* A Python str is a sequence of one-character strings.  A Python call     *)
(* either returns a value or raises: its result is [exc, val].             *)
(***************************************************************************)
EXTENDS Integers, Sequences, FiniteSets, TLC

VARIABLES pc, route, url, normUrl, features, pred, result, osint, net,
          probeArgs, probeRet, probeCalls, classifierCalls, scans, response

vars == <<pc, route, url, normUrl, features, pred, result, osint, net,
          probeArgs, probeRet, probeCalls, classifierCalls, scans, response>>

-----------------------------------------------------------------------------
(* Python values and calls *)

None == "None"

Raise == [exc |-> TRUE, val |-> None]

Return(v) == [exc |-> FALSE, val |-> v]

-----------------------------------------------------------------------------
(* str methods *)

Whitespace == {" "}

UpperCase == <<"A","B","C","D","E","F","G","H","I","J","K","L","M",
               "N","O","P","Q","R","S","T","U","V","W","X","Y","Z">>

LowerCase == <<"a","b","c","d","e","f","g","h","i","j","k","l","m",
               "n","o","p","q","r","s","t","u","v","w","x","y","z">>

Digits == {"0","1","2","3","4","5","6","7","8","9"}

Letters == {UpperCase[i] : i \in 1..26} \cup {LowerCase[i] : i \in 1..26}

isdigit(c) == c \in Digits

isalpha(c) == c \in Letters

LowerMap ==
    [c \in Letters |->
        IF \E i \in 1..26 : UpperCase[i] = c
        THEN LowerCase[CHOOSE i \in 1..26 : UpperCase[i] = c]
        ELSE c]

LowerChar(c) == IF c \in Letters THEN LowerMap[c] ELSE c

lower(s) == [i \in 1..Len(s) |-> LowerChar(s[i])]

RECURSIVE lstrip(_)
lstrip(s) == IF s # <<>> /\ Head(s) \in Whitespace THEN lstrip(Tail(s)) ELSE s

RECURSIVE rstrip(_)
rstrip(s) ==
    IF s # <<>> /\ s[Len(s)] \in Whitespace
    THEN rstrip(SubSeq(s, 1, Len(s) - 1))
    ELSE s

strip(s) == rstrip(lstrip(s))

startswith(s, p) == Len(s) >= Len(p) /\ SubSeq(s, 1, Len(p)) = p

\* s[from:] in Python terms, from being a 1-based index here
Drop(s, from) == SubSeq(s, from, Len(s))

\* sub in s
contains(s, sub) ==
    \E i \in 1..(Len(s) - Len(sub) + 1) : SubSeq(s, i, i + Len(sub) - 1) = sub

\* s.count(sub): non-overlapping occurrences, scanned left to right from i
RECURSIVE countFrom(_, _, _)
countFrom(s, sub, i) ==
    IF i + Len(sub) - 1 > Len(s) THEN 0
    ELSE IF SubSeq(s, i, i + Len(sub) - 1) = sub
         THEN 1 + countFrom(s, sub, i + Len(sub))
         ELSE countFrom(s, sub, i + 1)

count(s, sub) == countFrom(s, sub, 1)

\* sum(c.isdigit() for c in s)
countDigits(s) == Cardinality({i \in 1..Len(s) : isdigit(s[i])})

\* sum(c.isalpha() for c in s)
countLetters(s) == Cardinality({i \in 1..Len(s) : isalpha(s[i])})

\* index of the first character of s from i on that is in cs, Len(s)+1
\* when there is none
RECURSIVE findFrom(_, _, _)
findFrom(s, cs, i) ==
    IF i > Len(s) THEN Len(s) + 1
    ELSE IF s[i] \in cs THEN i
    ELSE findFrom(s, cs, i + 1)

find(s, cs) == findFrom(s, cs, 1)

\* s.split(c): always at least one (possibly empty) piece
RECURSIVE split(_, _)
split(s, c) ==
    LET i == find(s, {c})
    IN  IF i > Len(s) THEN <<s>>
        ELSE <<SubSeq(s, 1, i - 1)>> \o split(Drop(s, i + 1), c)

\* c.join(pieces)
RECURSIVE join(_, _)
join(pieces, c) ==
    IF pieces = <<>> THEN <<>>
    ELSE IF Len(pieces) = 1 THEN pieces[1]
    ELSE pieces[1] \o <<c>> \o join(Tail(pieces), c)

-----------------------------------------------------------------------------
(* feature_extractor.py: URL Normalizer and Domain Resolver *)

HTTP == <<"h","t","t","p",":","/","/">>

HTTPS == <<"h","t","t","p","s",":","/","/">>

\* the prefix test lost: every input gets "http://" prepended
_normalize_url_always_prepend(u) == HTTP \o strip(u)

_normalize_url(u) ==
    LET s == strip(u)
    IN  IF ~(startswith(s, HTTP) \/ startswith(s, HTTPS)) THEN HTTP \o s ELSE s

SchemeChars == Letters \cup Digits \cup {"+", "-", "."}

\* urlsplit, first cut: the scheme before the first ":" (at index i) and
\* the rest after it
split_scheme(u, i) ==
    IF /\ i <= Len(u)
       /\ i > 1
       /\ isalpha(u[1])
       /\ \A j \in 1..(i - 1) : u[j] \in SchemeChars
    THEN [scheme |-> lower(SubSeq(u, 1, i - 1)), rest |-> Drop(u, i + 1)]
    ELSE [scheme |-> <<>>, rest |-> u]

\* urlsplit, second cut: the netloc between "//" and the first of "/?#"
\* (at index k of rest), and the rest from there
split_netloc(rest, k) ==
    IF startswith(rest, <<"/", "/">>)
    THEN [netloc |-> SubSeq(rest, 3, k - 1), rest |-> Drop(rest, k)]
    ELSE [netloc |-> <<>>, rest |-> rest]

\* urlsplit, last cut: ValueError on an unmatched square bracket in the
\* netloc, else fragment after the first "#", query after the first "?"
\* before it, path before both
split_path(scheme, loc) ==
    IF \/ contains(loc.netloc, <<"[">>) /\ ~contains(loc.netloc, <<"]">>)
       \/ contains(loc.netloc, <<"]">>) /\ ~contains(loc.netloc, <<"[">>)
    THEN Raise
    ELSE Return([scheme   |-> scheme,
                 netloc   |-> loc.netloc,
                 path     |-> SubSeq(loc.rest, 1, find(loc.rest, {"?", "#"}) - 1),
                 query    |-> SubSeq(loc.rest, find(loc.rest, {"?", "#"}) + 1,
                                     find(loc.rest, {"#"}) - 1),
                 fragment |-> Drop(loc.rest, find(loc.rest, {"#"}) + 1)])

split_rest(s) ==
    split_path(s.scheme, split_netloc(s.rest, findFrom(s.rest, {"/", "?", "#"}, 3)))

\* urllib.parse.urlparse for a URL without ";" parameters
urlparse(u) == split_rest(split_scheme(u, find(u, {":"})))

netloc_host(parsed) ==
    IF parsed.exc THEN Raise
    ELSE Return(lower(split(parsed.val.netloc, ":")[1]))

_get_domain(u) == netloc_host(urlparse(_normalize_url(u)))

\* The public suffixes known to the tldextract collaborator (a sample of
\* the Public Suffix List: com, uk, co.uk).
PublicSuffixes == { <<<<"c","o","m">>>>,
                    <<<<"u","k">>>>,
                    <<<<"c","o">>, <<"u","k">>>> }

\* tldextract: the URL without its "scheme://" (":" at index i) or "//"
schemeless(u, i) ==
    IF /\ i <= Len(u)
       /\ i > 1
       /\ isalpha(u[1])
       /\ \A j \in 1..(i - 1) : u[j] \in SchemeChars
       /\ SubSeq(u, i + 1, i + 2) = <<"/", "/">>
    THEN Drop(u, i + 3)
    ELSE IF startswith(u, <<"/", "/">>) THEN Drop(u, 3) ELSE u

Last(pieces) == pieces[Len(pieces)]

\* tldextract: cut at the first of "/?#", drop the userinfo and the port
lenient_netloc(rest) ==
    split(Last(split(SubSeq(rest, 1, find(rest, {"/", "?", "#"}) - 1), "@")), ":")[1]

\* the number of trailing labels that form the longest known public suffix
suffix_length(low) ==
    IF \E m \in 1..Len(low) : SubSeq(low, Len(low) - m + 1, Len(low)) \in PublicSuffixes
    THEN CHOOSE m \in 1..Len(low) :
            /\ SubSeq(low, Len(low) - m + 1, Len(low)) \in PublicSuffixes
            /\ \A m2 \in (m + 1)..Len(low) :
                  SubSeq(low, Len(low) - m2 + 1, Len(low)) \notin PublicSuffixes
    ELSE 0

\* labels[1..sufIdx-1] is the subdomain, labels[sufIdx] the domain, the
\* labels after it the suffix
extract_result(labels, sufIdx) ==
    [subdomain |-> IF sufIdx >= 2 THEN join(SubSeq(labels, 1, sufIdx - 1), ".")
                   ELSE <<>>,
     domain    |-> IF sufIdx >= 1 THEN labels[sufIdx] ELSE <<>>,
     suffix    |-> join(SubSeq(labels, sufIdx + 1, Len(labels)), ".")]

extract_labels(labels) ==
    extract_result(labels,
        Len(labels) - suffix_length([j \in 1..Len(labels) |-> lower(labels[j])]))

\* tldextract.extract(url)
tldextract_extract(u) ==
    extract_labels(split(lenient_netloc(schemeless(u, find(u, {":"}))), "."))

-----------------------------------------------------------------------------
(* The network as the three probes see it *)

MaxAgeDays == 1

MaxRedirects == 1

Fault == [kind |-> "fault"]

DateTime(age, tz) == [kind |-> "datetime", age |-> age, tzinfo |-> tz]

\* What w.creation_date can be: absent, an unparsed string, a datetime
\* (age = whole days from it to utcnow(), negative for a date in the
\* future), or a list of candidates.
CreationDates ==
    {[kind |-> "none"], [kind |-> "str"], [kind |-> "list", items |-> <<>>]}
    \cup {DateTime(a, FALSE) : a \in (-1)..MaxAgeDays}
    \cup {[kind |-> "list", items |-> <<DateTime(MaxAgeDays, TRUE), DateTime(0, FALSE)>>]}

\* whois.whois(domain): raises, or answers with a record
WhoisOutcomes == {Fault} \cup {[kind |-> "record", creation_date |-> c] : c \in CreationDates}

\* socket.create_connection / wrap_socket raise, or getpeercert() answers
TlsOutcomes == {Fault, [kind |-> "cert", empty |-> TRUE], [kind |-> "cert", empty |-> FALSE]}

\* requests.get raises, or answers with len(resp.history) hops
HttpOutcomes == {Fault} \cup {[kind |-> "response", history |-> h] : h \in 0..MaxRedirects}

NetOutcomes == [whois : WhoisOutcomes, tls : TlsOutcomes, http : HttpOutcomes]

Max(a, b) == IF a >= b THEN a ELSE b

\* except Exception: return dflt
Except(r, dflt) == IF r.exc THEN Return(dflt) ELSE r

\* the clamp max(age, 0) lost
domain_age_try_no_max(w) ==
    IF w.kind = "fault" THEN Raise
    ELSE LET c0 == w.creation_date
         IN  IF c0.kind = "list" /\ c0.items = <<>> THEN Raise
             ELSE LET c1 == IF c0.kind = "list" THEN c0.items[1] ELSE c0
                  IN  IF c1.kind = "none" THEN Return(0)
                      ELSE IF c1.kind = "str" THEN Raise
                      ELSE Return(c1.age)

\* the try body of _get_domain_age_days
domain_age_try(w) ==
    IF w.kind = "fault" THEN Raise
    ELSE LET c0 == w.creation_date
         IN  IF c0.kind = "list" /\ c0.items = <<>> THEN Raise     \* IndexError
             ELSE LET c1 == IF c0.kind = "list" THEN c0.items[1] ELSE c0
                  IN  IF c1.kind = "none" THEN Return(0)
                      ELSE IF c1.kind = "str" THEN Raise            \* TypeError
                      ELSE LET naive == [c1 EXCEPT !.tzinfo = FALSE]
                           IN  Return(Max(naive.age, 0))

\* the except clause lost: a fault leaves the probe
_get_domain_age_days_no_except(domain, w) == domain_age_try(w)

_get_domain_age_days(domain, w) == Except(domain_age_try(w), 0)

\* the try body of _has_valid_ssl
has_valid_ssl_try(t) ==
    IF t.kind = "fault" THEN Raise
    ELSE Return(IF ~t.empty THEN 1 ELSE 0)

_has_valid_ssl(domain, t) == Except(has_valid_ssl_try(t), 0)

\* the try body of _get_redirect_count
redirect_count_try(h) ==
    IF h.kind = "fault" THEN Raise
    ELSE Return(h.history)

_get_redirect_count(u, h) == Except(redirect_count_try(h), 0)

-----------------------------------------------------------------------------
(* Keyword matcher *)

\* the list without "confirm"
suspicious_words_without_confirm == <<
    <<"l","o","g","i","n">>,
    <<"s","e","c","u","r","e">>,
    <<"s","i","g","n","i","n">>,
    <<"v","e","r","i","f","y">>,
    <<"u","p","d","a","t","e">>,
    <<"a","c","c","o","u","n","t">>,
    <<"b","a","n","k">>,
    <<"p","a","y","m","e","n","t">>,
    <<"i","n","v","o","i","c","e">>,
    <<"p","a","y","p","a","l">>,
    <<"s","e","c","u","r","i","t","y">>,
    <<"w","e","b","s","c","r">>,
    <<"p","a","s","s","w","o","r","d">> >>

suspicious_words == <<
    <<"l","o","g","i","n">>,
    <<"s","e","c","u","r","e">>,
    <<"s","i","g","n","i","n">>,
    <<"v","e","r","i","f","y">>,
    <<"u","p","d","a","t","e">>,
    <<"a","c","c","o","u","n","t">>,
    <<"b","a","n","k">>,
    <<"p","a","y","m","e","n","t">>,
    <<"c","o","n","f","i","r","m">>,
    <<"i","n","v","o","i","c","e">>,
    <<"p","a","y","p","a","l">>,
    <<"s","e","c","u","r","i","t","y">>,
    <<"w","e","b","s","c","r">>,
    <<"p","a","s","s","w","o","r","d">> >>

\* every occurrence counted: sum(text.count(w) for w in suspicious_words)
RECURSIVE count_occurrences(_, _)
count_occurrences(text, i) ==
    IF i > Len(suspicious_words) THEN 0
    ELSE count(text, suspicious_words[i]) + count_occurrences(text, i + 1)

_count_suspicious_keywords_per_occurrence(u) == count_occurrences(lower(u), 1)

_count_suspicious_keywords(u) ==
    LET text == lower(u)
    IN  Cardinality({i \in 1..Len(suspicious_words) : contains(text, suspicious_words[i])})

-----------------------------------------------------------------------------
(* OSINT Collector and Feature Vector Assembler *)

\* the dict get_osint_details returns
osint_dict(domain, https_flag, age, ssl, redirects, keywords, subdomains) ==
    IF age.exc \/ ssl.exc \/ redirects.exc THEN Raise
    ELSE Return([domain              |-> domain,
                 https               |-> https_flag,
                 domain_age_days     |-> age.val,
                 ssl_valid           |-> ssl.val,
                 redirects           |-> redirects.val,
                 suspicious_keywords |-> keywords,
                 subdomain_count     |-> subdomains])

\* get_osint_details from its locals parsed, domain and ext on
osint_details(u, n, parsed, domain, ext) ==
    IF parsed.exc \/ domain.exc THEN Raise
    ELSE osint_dict(domain.val,
                    IF parsed.val.scheme = <<"h","t","t","p","s">> THEN 1 ELSE 0,
                    _get_domain_age_days(domain.val, n.whois),
                    _has_valid_ssl(domain.val, n.tls),
                    _get_redirect_count(u, n.http),
                    _count_suspicious_keywords(u),
                    IF ext.subdomain # <<>>
                    THEN Len(split(ext.subdomain, "."))
                    ELSE 0)

get_osint_details(u, n) ==
    osint_details(u, n, urlparse(_normalize_url(u)), _get_domain(u),
                  tldextract_extract(_normalize_url(u)))

FeatureCount == 30

\* while len(features) < 30: features.append(0); return features[:30]
PadTo30(f) ==
    SubSeq(f \o [i \in 1..Max(FeatureCount - Len(f), 0) |-> 0], 1, FeatureCount)

\* domain age and SSL validity appended in the other order
osint_features_swapped(o) ==
    <<o.ssl_valid, o.domain_age_days, o.redirects, o.suspicious_keywords,
      o.subdomain_count>>

\* "OSINT-based features": slots 14 to 18
osint_features(o) ==
    <<o.domain_age_days, o.ssl_valid, o.redirects, o.suspicious_keywords,
      o.subdomain_count>>

\* "Basic lexical features" and the HTTPS flag: slots 1 to 13
lexical_features(norm_url, parsed, domain, ext, o) ==
    << Len(norm_url),
       count(norm_url, <<".">>),
       IF contains(norm_url, <<"@">>) THEN 1 ELSE 0,
       count(norm_url, <<"/", "/">>),
       count(norm_url, <<"-">>),
       count(norm_url, <<"?">>),
       count(norm_url, <<"=">>),
       countDigits(norm_url),
       countLetters(norm_url),
       Len(ext.suffix),
       Len(domain),
       Len(parsed.path),
       o.https >>

\* extract_features from its locals on
features_list(norm_url, parsed, domain, ext, o) ==
    IF parsed.exc \/ domain.exc \/ o.exc THEN Raise
    ELSE Return(PadTo30(lexical_features(norm_url, parsed.val, domain.val, ext, o.val)
                        \o osint_features(o.val)))

extract_features(u, n) ==
    features_list(_normalize_url(u), urlparse(_normalize_url(u)), _get_domain(u),
                  tldextract_extract(_normalize_url(u)), get_osint_details(u, n))

-----------------------------------------------------------------------------
(* Requests *)

\* ""
UrlEmpty ==
    <<>>

\* " "
UrlBlank ==
    <<" ">>

\* "example.com"
UrlBare ==
    <<"e","x","a","m","p","l","e",".","c","o","m">>

\* " https://example.com "
UrlPadded ==
    <<" ","h","t","t","p","s",":","/","/","e","x","a","m","p","l","e",".","c","o","m"," ">>

\* "https://example.com"
UrlHttps ==
    <<"h","t","t","p","s",":","/","/","e","x","a","m","p","l","e",".","c","o","m">>

\* "https://www.example.co.uk/a-b?x=1"
UrlSub ==
    <<"h","t","t","p","s",":","/","/","w","w","w",".","e","x","a","m","p","l","e",".","c","o",".","u","k","/","a","-","b","?","x","=","1">>

\* "http://secure-login-verify-paypal.badsite.test/account/confirm"
UrlPhish ==
    <<"h","t","t","p",":","/","/","s","e","c","u","r","e","-","l","o","g","i","n","-","v","e","r","i","f","y","-","p","a","y","p","a","l",".","b","a","d","s","i","t","e",".","t","e","s","t","/","a","c","c","o","u","n","t","/","c","o","n","f","i","r","m">>

\* "http://["
UrlBracket ==
    <<"h","t","t","p",":","/","/","[">>

\* "https://Login.Bank.com:8080/"
UrlUpper ==
    <<"h","t","t","p","s",":","/","/","L","o","g","i","n",".","B","a","n","k",".","c","o","m",":","8","0","8","0","/">>

\* "ftp://example.com"
UrlFtp ==
    <<"f","t","p",":","/","/","e","x","a","m","p","l","e",".","c","o","m">>

\* "https://paypal.com/"
UrlPaypal ==
    <<"h","t","t","p","s",":","/","/","p","a","y","p","a","l",".","c","o","m","/">>

\* "http://bank.com/login"
UrlBank ==
    <<"h","t","t","p",":","/","/","b","a","n","k",".","c","o","m","/","l","o","g","i","n">>

\* "http://u@example.com//x#f2"
UrlUser ==
    <<"h","t","t","p",":","/","/","u","@","e","x","a","m","p","l","e",".","c","o","m","/","/","x","#","f","2">>

\* "http://login.com/LOGIN"
UrlTwice ==
    <<"h","t","t","p",":","/","/","l","o","g","i","n",".","c","o","m","/","L","O","G","I","N">>

RawUrls == {UrlTwice, UrlEmpty, UrlBlank, UrlBare, UrlPadded, UrlHttps, UrlSub, UrlPhish, UrlBracket, UrlUpper, UrlFtp, UrlPaypal, UrlBank, UrlUser}

\* request.form.get("url") / data.get("url"): <<>> when the field is
\* missing, <<s>> when it carries the string s
UrlFields == {<<>>} \cup {<<u>> : u \in RawUrls}

Routes == {"predict", "api_scan"}

\* model.predict(scaled)[0]
ClassifierLabels == {-1, 0, 1}

NoNet == [whois |-> Fault, tls |-> Fault, http |-> Fault]

NoCalls == [whois |-> 0, tls |-> 0, http |-> 0]

\* (field or "").strip()
FieldOrEmpty(field) == strip(IF field = <<>> THEN <<>> ELSE field[1])

Init ==
    /\ pc = "idle"
    /\ route = None
    /\ url = <<>>
    /\ normUrl = <<>>
    /\ features = <<>>
    /\ pred = <<>>
    /\ result = None
    /\ osint = <<>>
    /\ net = NoNet
    /\ probeArgs = <<>>
    /\ probeRet = <<>>
    /\ probeCalls = NoCalls
    /\ classifierCalls = 0
    /\ scans = <<>>
    /\ response = <<>>

\* The request reaches its handler: app.py:213 for /predict, app.py:265-269
\* for /api/scan.
Request(r, field) ==
    /\ pc = "idle"
    /\ route' = r
    /\ url' = FieldOrEmpty(field)
    /\ IF r = "api_scan" /\ url' = <<>>
       THEN /\ response' = <<[status |-> 400, error |-> "url field is required"]>>
            /\ pc' = "done"
       ELSE /\ response' = response
            /\ pc' = "extract"
    /\ UNCHANGED <<normUrl, features, pred, result, osint, net, probeArgs, probeRet,
                   probeCalls, classifierCalls, scans>>

\* The values the three probes handed back during one get_osint_details
ProbeReturnsFor(u, n, domain) ==
    [whois |-> _get_domain_age_days(domain.val, n.whois),
     tls   |-> _has_valid_ssl(domain.val, n.tls),
     http  |-> _get_redirect_count(u, n.http)]

ProbeReturns(u, n) == ProbeReturnsFor(u, n, _get_domain(u))

\* What get_osint_details hands to its three probes: domain to the WHOIS
\* and TLS probes, url to the redirect probe
ProbeArgsFor(u, domain) == [whois |-> domain.val, tls |-> domain.val, http |-> u]

ProbeArgs(u) == ProbeArgsFor(u, _get_domain(u))

\* get_osint_details reaches its probes only past urlparse
ProbesStarted(u) == ~urlparse(_normalize_url(u)).exc

\* A function as an explicit table, computed once
Memo(f) == [x \in {} |-> 0] @@ f

\* The strings a handler can hold in url
StrippedUrls == {FieldOrEmpty(field) : field \in UrlFields}

\* What one call did: its result and what its probes handed back
CallRecord(ret, started, args, probes) ==
    [ret     |-> ret,
     started |-> started,
     args    |-> IF started THEN <<args>> ELSE <<>>,
     probes  |-> IF started THEN <<probes>> ELSE <<>>]

\* extract_features(url) under the network answers n
ExtractFeaturesCall ==
    Memo([u \in StrippedUrls, n \in NetOutcomes |->
            CallRecord(extract_features(u, n), ProbesStarted(u), ProbeArgs(u),
                       ProbeReturns(u, n))])

\* get_osint_details(url) under the network answers n
GetOsintDetailsCall ==
    Memo([u \in StrippedUrls, n \in NetOutcomes |->
            CallRecord(get_osint_details(u, n), ProbesStarted(u), ProbeArgs(u),
                       ProbeReturns(u, n))])

CountProbes(calls, started) ==
    IF started
    THEN [whois |-> calls.whois + 1, tls |-> calls.tls + 1, http |-> calls.http + 1]
    ELSE calls

\* An exception leaves the view function: the framework answers 500
Http500 == <<[status |-> 500]>>

\* features = extract_features(url)
ExtractFeaturesDid(n, call) ==
    /\ probeCalls' = CountProbes(probeCalls, call.started)
    /\ IF call.started
       THEN net' = n /\ probeArgs' = call.args /\ probeRet' = call.probes
       ELSE UNCHANGED <<net, probeArgs, probeRet>>
    /\ IF call.ret.exc
       THEN /\ pc' = "error"
            /\ response' = Http500
            /\ UNCHANGED features
       ELSE /\ pc' = "classify"
            /\ features' = call.ret.val
            /\ UNCHANGED response

ExtractFeatures(n) ==
    /\ pc = "extract"
    /\ normUrl' = _normalize_url(url)
    /\ ExtractFeaturesDid(n, ExtractFeaturesCall[url, n])
    /\ UNCHANGED <<route, url, pred, result, osint, classifierCalls, scans>>

Verdict(label) == IF label = 1 THEN "Legitimate" ELSE "Phishing"

\* scaled = scaler.transform([features]); pred = model.predict(scaled)[0];
\* result = "Legitimate" if pred == 1 else "Phishing"
Classify(label) ==
    /\ pc = "classify"
    /\ pred' = <<label>>
    /\ result' = Verdict(label)
    /\ classifierCalls' = classifierCalls + 1
    /\ pc' = "osint"
    /\ UNCHANGED <<route, url, normUrl, features, osint, net, probeArgs, probeRet,
                   probeCalls, scans, response>>

\* osint = get_osint_details(url)
GetOsintDetailsDid(n, call) ==
    /\ probeCalls' = CountProbes(probeCalls, call.started)
    /\ IF call.started
       THEN net' = n /\ probeArgs' = call.args /\ probeRet' = call.probes
       ELSE UNCHANGED <<net, probeArgs, probeRet>>
    /\ IF call.ret.exc
       THEN /\ pc' = "error"
            /\ response' = Http500
            /\ UNCHANGED osint
       ELSE /\ pc' = "finish"
            /\ osint' = <<call.ret.val>>
            /\ UNCHANGED response

GetOsintDetails(n) ==
    /\ pc = "osint"
    /\ GetOsintDetailsDid(n, GetOsintDetailsCall[url, n])
    /\ UNCHANGED <<route, url, normUrl, features, pred, result,
                   classifierCalls, scans>>

\* the first override rule lost
resolve_without_rule1(base, o) ==
    IF o.https = 0 /\ o.ssl_valid = 0 /\ o.suspicious_keywords >= 2
    THEN "Phishing" ELSE base

\* the second override rule firing only above two keywords
resolve_rule2_above_two(base, o) ==
    LET r1 == IF o.https = 1 /\ o.ssl_valid = 1 /\ o.suspicious_keywords = 0
              THEN "Legitimate" ELSE base
    IN  IF o.https = 0 /\ o.ssl_valid = 0 /\ o.suspicious_keywords > 2
        THEN "Phishing" ELSE r1

\* the guard of the first override rule
rule1(o) == o.https = 1 /\ o.ssl_valid = 1 /\ o.suspicious_keywords = 0

\* the second guard pasted from the first and left unedited
rule2_pasted_from_rule1(o) ==
    o.https = 1 /\ o.ssl_valid = 1 /\ o.suspicious_keywords = 0

\* the guard of the second override rule
rule2(o) == o.https = 0 /\ o.ssl_valid = 0 /\ o.suspicious_keywords >= 2

\* the first override rule firing whatever the keyword count
resolve_rule1_ignores_keywords(base, o) ==
    LET r1 == IF o.https = 1 /\ o.ssl_valid = 1 THEN "Legitimate" ELSE base
    IN  IF rule2(o) THEN "Phishing" ELSE r1

\* "simple hybrid tweaks": the two override rules, in source order
resolve(base, o) ==
    LET r1 == IF rule1(o) THEN "Legitimate" ELSE base
    IN  IF rule2(o) THEN "Phishing" ELSE r1

\* /predict after the OSINT lookup: override rules, Scan row, page
PredictFinish ==
    /\ pc = "finish"
    /\ route = "predict"
    /\ result' = resolve(result, osint[1])
    /\ scans' = Append(scans, [url |-> url, result |-> result', osint |-> osint[1]])
    /\ response' = <<[status |-> 200, url |-> url, result |-> result',
                      osint |-> osint[1]]>>
    /\ pc' = "done"
    /\ UNCHANGED <<route, url, normUrl, features, pred, osint, net, probeArgs, probeRet,
                   probeCalls, classifierCalls>>

\* /api/scan after the OSINT lookup: the JSON answer
ApiFinish ==
    /\ pc = "finish"
    /\ route = "api_scan"
    /\ response' = <<[status |-> 200, url |-> url, result |-> result,
                      osint |-> osint[1]]>>
    /\ pc' = "done"
    /\ UNCHANGED <<route, url, normUrl, features, pred, result, osint, net,
                   probeArgs, probeRet, probeCalls, classifierCalls, scans>>

Next ==
    \/ \E r \in Routes, field \in UrlFields : Request(r, field)
    \/ \E n \in NetOutcomes : ExtractFeatures(n)
    \/ \E label \in ClassifierLabels : Classify(label)
    \/ \E n \in NetOutcomes : GetOsintDetails(n)
    \/ PredictFinish
    \/ ApiFinish

Spec == Init /\ [][Next]_vars

-----------------------------------------------------------------------------
(* The Normalizer on its own, over every short sequence of tokens *)

MaxTokens == 3

\* "ftp://"
FTP == <<"f","t","p",":","/","/">>

\* "HTTPS://"
HTTPSUpper == <<"H","T","T","P","S",":","/","/">>

NormTokens == {<<" ">>, HTTP, HTTPS, FTP, HTTPSUpper, UrlBare}

RECURSIVE Flatten(_)
Flatten(toks) == IF toks = <<>> THEN <<>> ELSE Head(toks) \o Flatten(Tail(toks))

NormInputs ==
    {Flatten(toks) : toks \in UNION {[1..k -> NormTokens] : k \in 0..MaxTokens}}

NormInit ==
    /\ pc = "raw"
    /\ url \in NormInputs
    /\ route = None
    /\ normUrl = <<>>
    /\ features = <<>>
    /\ pred = <<>>
    /\ result = None
    /\ osint = <<>>
    /\ net = NoNet
    /\ probeArgs = <<>>
    /\ probeRet = <<>>
    /\ probeCalls = NoCalls
    /\ classifierCalls = 0
    /\ scans = <<>>
    /\ response = <<>>

\* norm_url = _normalize_url(url)
Normalize ==
    /\ pc = "raw"
    /\ normUrl' = _normalize_url(url)
    /\ pc' = "normalized"
    /\ UNCHANGED <<route, url, features, pred, result, osint, net, probeArgs, probeRet,
                   probeCalls, classifierCalls, scans, response>>

NormNext == Normalize

NormSpec == NormInit /\ [][NormNext]_vars

-----------------------------------------------------------------------------
(* Properties *)

Completed == pc = "done" /\ response # <<>> /\ response[1].status = 200

RegistryFieldUnusable(w) ==
    /\ w.kind = "record"
    /\ \/ w.creation_date.kind \in {"none", "str"}
       \/ w.creation_date.kind = "list" /\ w.creation_date.items = <<>>

\* C1: each of the three probes returns a value, never an exception, and
\* returns its neutral default 0 when the network faults or the registry
\* field is missing or malformed; no scan fails after its probes ran.
ProbeFaultsAbsorbed ==
    /\ probeRet # <<>> =>
         LET r == probeRet[1]
         IN  /\ ~r.whois.exc /\ ~r.tls.exc /\ ~r.http.exc
             /\ (net.whois.kind = "fault" \/ RegistryFieldUnusable(net.whois))
                    => r.whois.val = 0
             /\ net.tls.kind = "fault" => r.tls.val = 0
             /\ net.http.kind = "fault" => r.http.val = 0
    /\ pc = "error" => probeRet = <<>>

\* All three probes faulted and the scan still answered
AllProbesFailedScanAnswered ==
    /\ Completed
    /\ net = NoNet
    /\ probeRet = <<[whois |-> Return(0), tls |-> Return(0), http |-> Return(0)]>>

Rule1Holds(o) == o.https = 1 /\ o.ssl_valid = 1 /\ o.suspicious_keywords = 0

Rule2Holds(o) == o.https = 0 /\ o.ssl_valid = 0 /\ o.suspicious_keywords >= 2

\* C2: whatever the base verdict, a scan resolved over an OSINT record with
\* https = 1, ssl_valid = 1 and no suspicious keyword ends Legitimate (in
\* the page and in the stored Scan row).
OverrideRule1 ==
    (Completed /\ route = "predict" /\ Rule1Holds(osint[1])) =>
        /\ result = "Legitimate"
        /\ response[1].result = "Legitimate"
        /\ scans[Len(scans)].result = "Legitimate"

\* The classifier said Phishing and rule 1 turned it into Legitimate
Rule1OverrodePhishing ==
    /\ Completed
    /\ route = "predict"
    /\ Verdict(pred[1]) = "Phishing"
    /\ Rule1Holds(osint[1])
    /\ response[1].result = "Legitimate"

\* C3: whatever the base verdict, a scan resolved over an OSINT record with
\* https = 0, ssl_valid = 0 and two or more suspicious keywords ends
\* Phishing.
OverrideRule2 ==
    (Completed /\ route = "predict" /\ Rule2Holds(osint[1])) =>
        /\ result = "Phishing"
        /\ response[1].result = "Phishing"
        /\ scans[Len(scans)].result = "Phishing"

\* The classifier said Legitimate and rule 2, on exactly two keywords,
\* turned it into Phishing
Rule2OverrodeLegitimate ==
    /\ Completed
    /\ route = "predict"
    /\ Verdict(pred[1]) = "Legitimate"
    /\ Rule2Holds(osint[1])
    /\ osint[1].suspicious_keywords = 2
    /\ response[1].result = "Phishing"

\* C4: at every scan entry point the verdict in the answer is the base
\* verdict after both override rules, applied to the OSINT record of the
\* same answer.
ReturnedVerdictIsResolved ==
    Completed =>
        response[1].result = resolve(Verdict(pred[1]), response[1].osint)

ExtractFeaturesCalled ==
    pc \in {"classify", "osint", "finish", "error"} \/ Completed

\* C5: once extract_features has been called, whatever the input and the
\* probe outcomes, it has returned 30 numbers of which slots 19 to 30 are 0.
FeatureVectorHas30Slots ==
    ExtractFeaturesCalled =>
        /\ Len(features) = 30
        /\ \A i \in 1..30 : features[i] \in Int
        /\ \A i \in 19..30 : features[i] = 0

SubdomainLabels(n) ==
    LET sub == tldextract_extract(n).subdomain
    IN  IF sub = <<>> THEN 0 ELSE count(sub, <<".">>) + 1

\* C6: every feature vector holds, in this order, the twelve lexical values
\* of the normalized URL, the HTTPS flag, then domain age, SSL validity,
\* redirect count, keyword count and subdomain count as the probes of the
\* same call returned them, then zeros.
FixedSlotOrder ==
    features # <<>> =>
        /\ features[1] = Len(normUrl)
        /\ features[2] = count(normUrl, <<".">>)
        /\ features[3] = (IF contains(normUrl, <<"@">>) THEN 1 ELSE 0)
        /\ features[4] = count(normUrl, <<"/", "/">>)
        /\ features[5] = count(normUrl, <<"-">>)
        /\ features[6] = count(normUrl, <<"?">>)
        /\ features[7] = count(normUrl, <<"=">>)
        /\ features[8] = countDigits(normUrl)
        /\ features[9] = countLetters(normUrl)
        /\ features[10] = Len(tldextract_extract(normUrl).suffix)
        /\ features[11] = Len(_get_domain(url).val)
        /\ features[12] = Len(urlparse(normUrl).val.path)
        /\ features[13] = (IF startswith(normUrl, HTTPS) THEN 1 ELSE 0)
        /\ pc = "classify" =>
              /\ features[14] = probeRet[1].whois.val
              /\ features[15] = probeRet[1].tls.val
              /\ features[16] = probeRet[1].http.val
        /\ features[17] = _count_suspicious_keywords(url)
        /\ features[18] = SubdomainLabels(normUrl)
        /\ \A i \in 19..Len(features) : features[i] = 0

\* A vector whose slots 14, 15 and 16 tell the three probes apart
VectorWithDistinctOsintSlots ==
    /\ pc = "classify"
    /\ url = UrlSub
    /\ probeRet = <<[whois |-> Return(1), tls |-> Return(0), http |-> Return(1)]>>
    /\ SubSeq(features, 13, 18) = <<1, 1, 0, 1, 0, 1>>

\* C7: a scan request whose url is missing or empty after trimming is
\* rejected at its entry point: no probe started, no classifier call, no
\* Scan row, and the answer it ends with is a validation failure.
EmptyUrlRejected ==
    (pc # "idle" /\ url = <<>>) =>
        /\ probeCalls = NoCalls
        /\ classifierCalls = 0
        /\ scans = <<>>
        /\ pc \in {"done", "error"} => response[1].status = 400

OsintFields ==
    {"domain", "https", "ssl_valid", "domain_age_days", "redirects",
     "suspicious_keywords", "subdomain_count"}

\* C8: every OSINT record returned has all seven fields, https and
\* ssl_valid in {0,1}, and domain age, redirects, keyword and subdomain
\* counts that are integers >= 0, even for a creation date in the future.
OsintRecordComplete ==
    osint # <<>> =>
        LET o == osint[1]
        IN  /\ DOMAIN o = OsintFields
            /\ o.https \in {0, 1}
            /\ o.ssl_valid \in {0, 1}
            /\ o.domain_age_days \in Nat
            /\ o.redirects \in Nat
            /\ o.suspicious_keywords \in Nat
            /\ o.subdomain_count \in Nat

\* The registry reported a creation date in the future and the record
\* holds age 0
FutureCreationDateClamped ==
    /\ osint # <<>>
    /\ net.whois = [kind |-> "record", creation_date |-> DateTime(-1, FALSE)]
    /\ osint[1].domain_age_days = 0

\* C9: a scan of a non-empty url never ends in an exception, and when it
\* has ended it answered with a verdict and a full OSINT record.
AcceptedScanCompletes ==
    (url # <<>> /\ pc \in {"done", "error"}) =>
        /\ pc = "done"
        /\ response[1].status = 200
        /\ response[1].result \in {"Legitimate", "Phishing"}
        /\ DOMAIN response[1].osint = OsintFields

SchemeOf(s) == SubSeq(s, 1, find(s, {":"}) - 1)

HasHttpScheme(s) == startswith(s, HTTP) \/ startswith(s, HTTPS)

ScenarioKeywordCountIs5 ==
    (url = UrlPhish /\ osint # <<>>) => osint[1].suspicious_keywords = 5

\* C11 amended: the keyword count computed for that input is 6 (secure,
\* login, verify, paypal, account, confirm), in the OSINT record and in
\* slot 17 of the feature vector.
ScenarioKeywordCountIs6 ==
    /\ (url = UrlPhish /\ osint # <<>>) => osint[1].suspicious_keywords = 6
    /\ (url = UrlPhish /\ features # <<>>) => features[17] = 6

\* The scenario URL was scanned to the end
ScenarioScanned ==
    /\ Completed
    /\ url = UrlPhish
    /\ response[1].osint.suspicious_keywords = 6

\* C12: when neither override rule's condition holds for the OSINT record,
\* the verdict the scan ends with is the classifier's: Legitimate iff the
\* label is 1, Phishing for any other label.
BaseVerdictPassesThrough ==
    (Completed /\ ~Rule1Holds(osint[1]) /\ ~Rule2Holds(osint[1])) =>
        /\ response[1].result = (IF pred[1] = 1 THEN "Legitimate" ELSE "Phishing")
        /\ route = "predict" =>
              /\ result = response[1].result
              /\ scans[Len(scans)].result = response[1].result

\* An https URL with a valid certificate but one keyword: rule 1 just
\* misses, and the label -1 stays Phishing
NearMissOfRule1PassedThrough ==
    /\ Completed
    /\ route = "predict"
    /\ pred = <<-1>>
    /\ osint[1].https = 1
    /\ osint[1].ssl_valid = 1
    /\ osint[1].suspicious_keywords = 1
    /\ response[1].result = "Phishing"

\* Every combination of the three fields the guards read
OsintFlagRecords ==
    [https : {0, 1}, ssl_valid : {0, 1},
     suspicious_keywords : 0..Len(suspicious_words)]

Verdicts == {"Legitimate", "Phishing"}

\* The two rules evaluated in the other order: rule 2, then rule 1
ResolveRule2First(base, o) ==
    IF rule1(o) THEN "Legitimate"
    ELSE IF rule2(o) THEN "Phishing"
    ELSE base

ExclusiveOn(o) ==
    /\ ~(rule1(o) /\ rule2(o))
    /\ \A base \in Verdicts : resolve(base, o) = ResolveRule2First(base, o)

\* C13: over every possible OSINT record, and over every record a scan
\* collects, at most one of the two guards holds, and the verdict is the
\* same whichever order the rules are evaluated in.
GuardsMutuallyExclusive ==
    /\ \A o \in OsintFlagRecords : ExclusiveOn(o)
    /\ osint # <<>> => ExclusiveOn(osint[1])

\* A scan in which rule 2 fired and rule 1 did not, on a base verdict that
\* was Phishing already
OnlyRule2Fired ==
    /\ Completed
    /\ route = "predict"
    /\ rule2(osint[1])
    /\ ~rule1(osint[1])
    /\ pred = <<0>>
    /\ response[1].result = "Phishing"

\* The fixed word list, as a set
KeywordList ==
    {<<"l","o","g","i","n">>,
     <<"s","e","c","u","r","e">>,
     <<"s","i","g","n","i","n">>,
     <<"v","e","r","i","f","y">>,
     <<"u","p","d","a","t","e">>,
     <<"a","c","c","o","u","n","t">>,
     <<"b","a","n","k">>,
     <<"p","a","y","m","e","n","t">>,
     <<"c","o","n","f","i","r","m">>,
     <<"i","n","v","o","i","c","e">>,
     <<"p","a","y","p","a","l">>,
     <<"s","e","c","u","r","i","t","y">>,
     <<"w","e","b","s","c","r">>,
     <<"p","a","s","s","w","o","r","d">>}

\* w occurs in text at some offset
OccursIn(w, text) ==
    \E i \in 1..(Len(text) - Len(w) + 1) : SubSeq(text, i, i + Len(w) - 1) = w

\* the number of distinct listed words occurring in u, whatever the case
DistinctWordsIn(u) == Cardinality({w \in KeywordList : OccursIn(w, lower(u))})

DistinctWordsTable == Memo([u \in StrippedUrls |-> DistinctWordsIn(u)])

\* C14: the keyword count of a scan, in the OSINT record and in slot 17 of
\* the feature vector, is the number of distinct words of the 14-word list
\* that occur in the URL text ignoring case; a word occurring twice counts
\* once, the count is in 0..14, and it is the same whatever the probes
\* answered.
KeywordCountIsDistinctWords ==
    /\ Cardinality(KeywordList) = 14
    /\ osint # <<>> =>
         /\ osint[1].suspicious_keywords = DistinctWordsTable[url]
         /\ osint[1].suspicious_keywords \in 0..14
    /\ features # <<>> => features[17] = DistinctWordsTable[url]

\* A URL with "login" twice, in two cases, counted once on a scan whose
\* probes did answer
RepeatedWordCountedOnce ==
    /\ Completed
    /\ url = UrlTwice
    /\ count(lower(url), <<"l","o","g","i","n">>) = 2
    /\ osint[1].ssl_valid = 1
    /\ osint[1].suspicious_keywords = 1
    /\ features[17] = 1

\* The subdomain part the public-suffix parser finds in the scan's URL
SubdomainTable ==
    Memo([u \in StrippedUrls |-> tldextract_extract(_normalize_url(u)).subdomain])

\* The host with its subdomain labels, and the dot after them, removed
RegistrableDomain(host, subdomain) == Drop(host, Len(subdomain) + 2)

\* C15: when the host of the URL has subdomain labels, the name the WHOIS
\* query is made with is the host without those labels.
WhoisQueriedWithRegistrableDomain ==
    (probeArgs # <<>> /\ SubdomainTable[url] # <<>>) =>
        probeArgs[1].whois = RegistrableDomain(_get_domain(url).val, SubdomainTable[url])

\* Slots 13..18 of the feature vector as the record o would fill them
OsintSlots(o) ==
    <<o.https, o.domain_age_days, o.ssl_valid, o.redirects,
      o.suspicious_keywords, o.subdomain_count>>

\* C16: in a completed scan each probe was invoked exactly once, and slots
\* 13..18 of the vector the classifier saw equal the fields of the OSINT
\* record that the override rules read and the response carries.
OsintCollectedOnce ==
    Completed =>
        /\ probeCalls = [whois |-> 1, tls |-> 1, http |-> 1]
        /\ SubSeq(features, 13, 18) = OsintSlots(osint[1])
        /\ response[1].osint = osint[1]

====
